---- MODULE Spec2Model ----
(***************************************************************************)
(* LedgerBridgeKeyring (src/src/ledger-bridge-keyring.ts) as a state       *)
(* machine.  The keyring runs on one cooperative thread: an atomic step is *)
(* either a call made by the host (run up to its first suspension), the    *)
(* iframe's load event, or one inbound window message (the listener, the   *)
(* callback it invokes, and the promise continuations that run as          *)
(* microtasks before the next event).                                      *)
(***************************************************************************)
EXTENDS Integers, Sequences, FiniteSets, TLC

\* ------------------------------------------------------------------ bounds
MaxTasks == 2        \* calls the host makes in one behaviour
MaxLoads == 2        \* load events the iframe fires
MaxInbound == 3      \* window messages dispatched to the listener
MaxAddrId == 2       \* distinct accounts the bridge reports
MaxAmount == 2       \* largest amount passed to addAccounts
MaxUnlockIndex == 1  \* largest index passed to setAccountToUnlock
MaxPageInbound == 6  \* window messages dispatched while pages are discovered

\* ------------------------------------------------------- program constants
MIN_PAGE_NUMBER == 1
MAX_INDEX == 1000
perPage == 5

\* A derivation path string, split at its leading "m/": m says whether the
\* string starts with "m/", rest is the text after it.
Path(m, rest) == [m |-> m, rest |-> rest]
NoPath == Path(FALSE, "")
hdPathString == Path(TRUE, "44'/60'/0'")
ledgerLivePath == Path(TRUE, "44'/60'/0'/0/0")
HdPaths == {hdPathString, ledgerLivePath}

BRIDGE_ORIGIN == "https://metamask.github.io"
OtherOrigin == "https://example.org"
Origins == {BRIDGE_ORIGIN, OtherOrigin}

LedgerConnectionChange == "ledger-connection-change"
LedgerUnlock == "ledger-unlock"
LedgerMakeApp == "ledger-make-app"
LedgerUpdateTransport == "ledger-update-transport"
LedgerSignTransaction == "ledger-sign-transaction"
LedgerSignPersonalMessage == "ledger-sign-personal-message"
LedgerSignTypedData == "ledger-sign-typed-data"

\* error messages of the source
ErrNotLoaded == "The iframe is not loaded yet"
ErrUnknown == "Unknown error"
ErrTransport == "Ledger transport could not be updated"
ErrNotFound == "not found in this keyring"
ErrNoAccount == "Ledger: Account for address not found"
ErrForeign == "does not belong to the connected device"
ErrSigMismatch == "Ledger: The signature doesnt match the right address"
ErrTxInvalid == "Ledger: The transaction signature is not valid"
ErrSignMsg == "Ledger: Unknown error while signing message"
ErrSignTx == "Ledger: Unknown error while signing transaction"
ErrVersion == "Ledger: Only version 4 of typed data signing is supported"
ErrBridge == "error reported by the bridge"
ErrType == "TypeError"
ErrRecover == "Invalid signature"
ErrDerive == "hdkey derive failed"
ErrFetch == "fetch failed"
ErrUnknownAddress == "Unknown address"
NoErr == "none"

\* --------------------------------------------------------------- addresses
\* An address string is an account (id) written in some letter case: "cs" is
\* the EIP-55 checksummed spelling, "lc" the all-lowercase one.
Forms == {"cs", "lc"}
Addr(id, form) == [id |-> id, form |-> form]
NoAddr == Addr(0, "none")
AlreadyUnlocked == Addr(0, "already unlocked")
ChannelAddrs == {Addr(id, f) : id \in 1..MaxAddrId, f \in Forms}

toChecksumAddress(a) == IF a.form \in Forms THEN Addr(a.id, "cs") ELSE a
toLowerCase(a) == IF a.form \in Forms THEN Addr(a.id, "lc") ELSE a

\* --------------------------------------------------------------- sequences
Includes(seq, x) == \E n \in 1..Len(seq) : seq[n] = x
Filter(seq, Keep(_)) == SelectSeq(seq, Keep)
Range(seq) == {seq[n] : n \in 1..Len(seq)}

\* ----------------------------------------------------------------- records
Put(f, k, v) == [x \in DOMAIN f \cup {k} |-> IF x = k THEN v ELSE f[x]]
Delete(f, k) == [x \in DOMAIN f \ {k} |-> f[x]]
EmptyMap == [x \in {} |-> 0]

\* ---------------------------------------------------------------- payloads
\* IFrameMessageResponsePayload.  kind says which fields the payload has:
\*  "address"  publicKey/chainCode/address (GetAddressPayload)
\*  "signTx"   v is a string (SignTransactionPayload)
\*  "signMsg"  v is a number (SignMessagePayload)
\*  "conn"     connected is a boolean (ConnectionChangedPayload)
\*  "error"    only error;  "ack" no field at all
\* signer is the account whose key made (r, s, v); good says whether
\* (r, s, v) is a signature a public key can be recovered from at all.
Payload(kind, address, key, connected, signer, good, error) ==
  [kind |-> kind, address |-> address, key |-> key, connected |-> connected,
   signer |-> signer, good |-> good, error |-> error]
AddressPayload(a, key) == Payload("address", a, key, FALSE, 0, FALSE, NoErr)
SignTxPayload(signer, good) == Payload("signTx", NoAddr, 0, FALSE, signer, good, NoErr)
SignMsgPayload(signer, good) == Payload("signMsg", NoAddr, 0, FALSE, signer, good, NoErr)
ConnPayload(c) == Payload("conn", NoAddr, 0, c, 0, FALSE, NoErr)
ErrorPayload == Payload("error", NoAddr, 0, FALSE, 0, FALSE, ErrBridge)
AckPayload == Payload("ack", NoAddr, 0, FALSE, 0, FALSE, NoErr)

isSignTransactionResponse(payload) == payload.kind = "signTx"
isSignMessageResponse(payload) == payload.kind = "signMsg"
isGetAddressMessageResponse(payload) == payload.kind = "address"
isConnectionChangedResponse(payload) == payload.kind = "conn"

\* payload.error ?? new Error(fallback)
ErrorOr(payload, fallback) == IF payload.error # NoErr THEN payload.error ELSE fallback

\* A window message event: origin and data (IFrameMessageResponse).
NoToken == 0
Message(origin, hasData, messageId, action, success, payload) ==
  [origin |-> origin, hasData |-> hasData, messageId |-> messageId,
   action |-> action, success |-> success, payload |-> payload,
   error |-> IF success THEN NoErr ELSE ErrBridge]
NoMessage == Message("none", FALSE, NoToken, "none", FALSE, AckPayload)

\* ----------------------------------------------------------------- options
\* LedgerBridgeKeyringOptions as passed to the constructor and to
\* deserialize.  hasAccountDetails / hasAccountIndexes say whether the
\* object has the property at all; an absent hdPath is hdPathString, an
\* absent accounts the empty list, an absent implementFullBIP44 false.
OptsWith(path, accs, hasDetails, details, hasIndexes, indexes, full) ==
  [hdPath |-> path, accounts |-> accs,
   hasAccountDetails |-> hasDetails, accountDetails |-> details,
   hasAccountIndexes |-> hasIndexes, accountIndexes |-> indexes,
   implementFullBIP44 |-> full]

\* the current format: accountDetails given, no accountIndexes
Opts(path, accs, details, full) ==
  OptsWith(path, accs, TRUE, details, FALSE, EmptyMap, full)

NoOpts == OptsWith(NoPath, <<>>, FALSE, EmptyMap, FALSE, EmptyMap, FALSE)

\* ------------------------------------------------------------------- state
VARIABLES
  page,               \* page cursor
  unlockedAccount,    \* index addAccounts starts from
  accounts,           \* account list (sequence of address strings)
  accountDetails,     \* address string -> [bip44, hdPath]
  hdk,                \* HDKey: [publicKey |-> 0 (none) or the key]
  hdPath,             \* configured root path
  paths,              \* address string -> index (legacy path cache)
  implementFullBIP44,
  iframeLoaded,       \* the channel's ready flag
  isDeviceConnected,
  messageCallbacks,   \* messageId -> callback
  delayedPromise,     \* deferred transport configuration, or NoDelayed
  uuid,               \* number of messageIds uuidv4 has handed out
  outbox,             \* messages posted to the iframe's contentWindow
  tasks,              \* the promises of the calls made, and where each is
  inbound,            \* the last window message dispatched to the listener
  dispatched,         \* how many window messages were dispatched
  invoked             \* <<messageId of the event, key of the callback>> -> times invoked

vars == <<page, unlockedAccount, accounts, accountDetails, hdk, hdPath, paths,
          implementFullBIP44, iframeLoaded, isDeviceConnected, messageCallbacks,
          delayedPromise, uuid, outbox, tasks, inbound, dispatched, invoked>>


CallTasks == 1..MaxTasks
LoadTasks == (MaxTasks + 1)..(MaxTasks + MaxLoads)
Tasks == CallTasks \cup LoadTasks
NoDelayed == [task |-> 0, transportType |-> "none"]
NoKey == [publicKey |-> 0]

\* The state as one value, so that the code's statement sequences translate
\* to function composition.
State ==
  [page |-> page, unlockedAccount |-> unlockedAccount, accounts |-> accounts,
   accountDetails |-> accountDetails, hdk |-> hdk, hdPath |-> hdPath,
   paths |-> paths, implementFullBIP44 |-> implementFullBIP44,
   iframeLoaded |-> iframeLoaded, isDeviceConnected |-> isDeviceConnected,
   messageCallbacks |-> messageCallbacks, delayedPromise |-> delayedPromise,
   uuid |-> uuid, outbox |-> outbox, tasks |-> tasks, inbound |-> inbound,
   dispatched |-> dispatched, invoked |-> invoked]

Becomes(s) ==
  /\ page' = s.page
  /\ unlockedAccount' = s.unlockedAccount
  /\ accounts' = s.accounts
  /\ accountDetails' = s.accountDetails
  /\ hdk' = s.hdk
  /\ hdPath' = s.hdPath
  /\ paths' = s.paths
  /\ implementFullBIP44' = s.implementFullBIP44
  /\ iframeLoaded' = s.iframeLoaded
  /\ isDeviceConnected' = s.isDeviceConnected
  /\ messageCallbacks' = s.messageCallbacks
  /\ delayedPromise' = s.delayedPromise
  /\ uuid' = s.uuid
  /\ outbox' = s.outbox
  /\ tasks' = s.tasks
  /\ inbound' = s.inbound
  /\ dispatched' = s.dispatched
  /\ invoked' = s.invoked

\* ------------------------------------------------------------------- tasks
\* One record per call: the promise returned to the caller and the position
\* of the async function behind it.  token is the messageId of the task's
\* latest request; resp is the latest message handed to a callback of the
\* task and awaited the request the task was waiting on at that moment.
NewTask ==
  [op |-> "none", pc |-> "idle", promise |-> "none", err |-> NoErr,
   token |-> NoToken, resp |-> NoMessage, awaited |-> NoToken, address |-> NoAddr, mode |-> "none",
   path |-> NoPath, amount |-> 0, i |-> 0, to |-> 0, entries |-> <<>>,
   ret |-> NoAddr, retList |-> <<>>, retPath |-> NoPath, deferred |-> FALSE,
   version |-> "none", opts |-> NoOpts, history |-> <<>>, oldPath |-> NoPath]

Started(op) == [NewTask EXCEPT !.op = op, !.pc = "running", !.promise = "pending"]

\* resolve(...) / reject(...): a promise settles once, later calls are ignored
Resolve(s, t) ==
  IF s.tasks[t].promise = "pending"
  THEN [s EXCEPT !.tasks[t].promise = "resolved", !.tasks[t].pc = "done"]
  ELSE s
Reject(s, t, error) ==
  IF s.tasks[t].promise = "pending"
  THEN [s EXCEPT !.tasks[t].promise = "rejected", !.tasks[t].err = error,
                 !.tasks[t].pc = "done"]
  ELSE s

\* resolve(value) where the value is an address string
ResolveRet(s, t, a) ==
  IF s.tasks[t].promise = "pending"
  THEN [s EXCEPT !.tasks[t].promise = "resolved", !.tasks[t].pc = "done",
                 !.tasks[t].ret = a]
  ELSE s

\* the result of awaiting a promise
Fulfilled(v) == [ok |-> TRUE, val |-> v, err |-> NoErr]
Failed(e) == [ok |-> FALSE, val |-> NoAddr, err |-> e]

\* ------------------------------------------------------------- path policy
isLedgerLiveHdPath(s) == s.hdPath = ledgerLivePath

getPathForIndex(s, index) ==
  IF isLedgerLiveHdPath(s)
  THEN Path(TRUE, "44'/60'/" \o ToString(index) \o "'/0/0")
  ELSE Path(s.hdPath.m, s.hdPath.rest \o "/" \o ToString(index))

toLedgerPath(path) == Path(FALSE, path.rest)

isUnlocked(s) == s.hdk.publicKey # 0

\* hdk.derive(`${basePath}/${i}`), publicToAddress, toChecksumAddress.  The
\* child of key k at index i is account k * MAX_INDEX + i (distinct keys and
\* indexes give distinct accounts); derive throws without a public key and
\* for an index that is not an unsigned 32-bit number.
CanDerive(s, i) == isUnlocked(s) /\ i >= 0
addressFromIndex(s, i) ==
  toChecksumAddress(Addr(s.hdk.publicKey * MAX_INDEX + i, "lc"))

accountHasDetails(s, account) ==
  toChecksumAddress(account) \in DOMAIN s.accountDetails

setHdKey(s, payload) == [s EXCEPT !.hdk = [publicKey |-> payload.key]]

\* --------------------------------------------------------------- transport
PostMessage(messageId, action, path, transportType) ==
  [messageId |-> messageId, target |-> "LEDGER-IFRAME", action |-> action,
   hdPath |-> path, transportType |-> transportType]

Callback(t, kind, updateHdk) == [task |-> t, kind |-> kind, updateHdk |-> updateHdk]

\* variant of sendMessage: posts without looking at the ready flag
sendMessageUnguarded(s, t, action, path, transportType, callback) ==
  LET messageId == s.uuid + 1
  IN [st |-> [s EXCEPT !.uuid = messageId,
                       !.messageCallbacks = Put(@, messageId, callback),
                       !.tasks[t].token = messageId,
                       !.outbox = @ \cup
                          {PostMessage(messageId, action, path, transportType)}],
      thrown |-> FALSE]

\* #sendMessage made by task t.  The iframe element is appended to the
\* document by the constructor, so its contentWindow exists throughout.
\* thrown tells whether the call threw.
sendMessage(s, t, action, path, transportType, callback) ==
  LET messageId == s.uuid + 1
      s1 == [s EXCEPT !.uuid = messageId,
                      !.messageCallbacks = Put(@, messageId, callback),
                      !.tasks[t].token = messageId]
  IN IF ~s1.iframeLoaded
     THEN [st |-> s1, thrown |-> TRUE]
     ELSE [st |-> [s1 EXCEPT !.outbox = @ \cup
                     {PostMessage(messageId, action, path, transportType)}],
           thrown |-> FALSE]

\* variant of unlock: the device is asked also when the keyring is unlocked
\* and no path is given
unlockAlwaysAsks(s, t, path, updateHdk) ==
  LET p == IF path # NoPath THEN toLedgerPath(path) ELSE s.hdPath
      r == sendMessage(s, t, LedgerUnlock, p, "none",
                       Callback(t, "unlock", updateHdk))
  IN IF r.thrown
     THEN [st |-> r.st, out |-> Failed(ErrNotLoaded), pending |-> FALSE]
     ELSE [st |-> r.st, out |-> Failed(NoErr), pending |-> TRUE]

\* unlock(hdPath, updateHdk) called by task t.  out is "pending" when the
\* request is in flight, else the settled result.
unlock(s, t, path, updateHdk) ==
  IF isUnlocked(s) /\ path = NoPath
  THEN [st |-> s, out |-> Fulfilled(AlreadyUnlocked), pending |-> FALSE]
  ELSE LET p == IF path # NoPath THEN toLedgerPath(path) ELSE s.hdPath
           r == sendMessage(s, t, LedgerUnlock, p, "none",
                            Callback(t, "unlock", updateHdk))
       IN IF r.thrown
          THEN [st |-> r.st, out |-> Failed(ErrNotLoaded), pending |-> FALSE]
          ELSE [st |-> r.st, out |-> Failed(NoErr), pending |-> TRUE]

\* the callback unlock registers: what the unlock promise settles to
unlockCallback(s, cb, m) ==
  IF m.success /\ isGetAddressMessageResponse(m.payload)
  THEN [st |-> IF cb.updateHdk THEN setHdKey(s, m.payload) ELSE s,
        out |-> Fulfilled(m.payload.address)]
  ELSE [st |-> s, out |-> Failed(ErrorOr(m.payload, ErrUnknown))]

\* ------------------------------------------------------------- addAccounts
\* variant of addAccountsBody: accountDetails is keyed by the address as
\* the bridge spelled it
addAccountsBodyRawKey(s, address, path) ==
  LET s1 == [s EXCEPT !.accountDetails =
                 Put(@, address,
                     [bip44 |-> isLedgerLiveHdPath(s), hdPath |-> path])]
      s2 == IF ~Includes(s1.accounts, address)
            THEN [s1 EXCEPT !.accounts = Append(@, address)]
            ELSE s1
  IN [s2 EXCEPT !.page = 0]

\* one pass of the loop body after the address is known (lines 352-362)
addAccountsBody(s, address, path) ==
  LET s1 == [s EXCEPT !.accountDetails =
                 Put(@, toChecksumAddress(address),
                     [bip44 |-> isLedgerLiveHdPath(s), hdPath |-> path])]
      s2 == IF ~Includes(s1.accounts, address)
            THEN [s1 EXCEPT !.accounts = Append(@, address)]
            ELSE s1
  IN [s2 EXCEPT !.page = 0]

\* the for loop from index i on, up to its next suspension
RECURSIVE addAccountsLoop(_, _, _, _)
addAccountsLoop(s, t, i, to) ==
  IF i >= to
  THEN Resolve([s EXCEPT !.tasks[t].retList = s.accounts], t)
  ELSE LET path == getPathForIndex(s, i)
       IN IF isLedgerLiveHdPath(s)
          THEN LET r == unlock(s, t, path, TRUE)
               IN IF r.pending
                  THEN [r.st EXCEPT !.tasks[t].pc = "addAccounts:unlock",
                                    !.tasks[t].i = i, !.tasks[t].to = to,
                                    !.tasks[t].path = path]
                  ELSE Reject(r.st, t, r.out.err)
          ELSE IF CanDerive(s, i)
               THEN addAccountsLoop(addAccountsBody(s, addressFromIndex(s, i), path),
                                    t, i + 1, to)
               ELSE Reject(s, t, ErrDerive)

\* .then(async (_) => ...) once this.unlock() has settled
addAccountsThen(s, t, out) ==
  IF out.ok
  THEN LET from == s.unlockedAccount
       IN addAccountsLoop(s, t, from, from + s.tasks[t].amount)
  ELSE Reject(s, t, out.err)

\* await this.unlock(path) inside the loop has settled
addAccountsResume(s, t, out) ==
  IF out.ok
  THEN addAccountsLoop(addAccountsBody(s, out.val, s.tasks[t].path), t,
                       s.tasks[t].i + 1, s.tasks[t].to)
  ELSE Reject(s, t, out.err)

addAccounts(s, t, amount) ==
  LET s0 == [s EXCEPT !.tasks[t] = [Started("addAccounts") EXCEPT !.amount = amount]]
      r == unlock(s0, t, NoPath, TRUE)
  IN IF r.pending
     THEN [r.st EXCEPT !.tasks[t].pc = "addAccounts:root"]
     ELSE addAccountsThen(r.st, t, r.out)

\* ----------------------------------------------------------- removeAccount
\* the guard of removeAccount: the address is listed, whatever its case
removeAccountFinds(s, address) ==
  Includes([n \in 1..Len(s.accounts) |-> toLowerCase(s.accounts[n])],
           toLowerCase(address))

\* variant of removeAccount: the filter compares the strings as they are
removeAccountExact(s, address) ==
  LET Keep(a) == a # address
  IN [s EXCEPT !.accounts = Filter(@, Keep),
               !.accountDetails = Delete(@, toChecksumAddress(address))]

removeAccount(s, address) ==
  LET Keep(a) == toLowerCase(a) # toLowerCase(address)
  IN [s EXCEPT !.accounts = Filter(@, Keep),
               !.accountDetails = Delete(@, toChecksumAddress(address))]

\* -------------------------------------------------------------------- pages
Min(a, b) == IF a < b THEN a ELSE b

Entry(address, i) == [address |-> address, balance |-> "null", index |-> i]

\* #getAccountsLegacy: perPage locally derived entries, cached in paths
getAccountsLegacy(s, t, from) ==
  IF \A i \in from..(from + perPage - 1) : CanDerive(s, i)
  THEN LET entries == [n \in 1..perPage |->
                          Entry(addressFromIndex(s, from + n - 1), from + n - 1)]
           keys == {toChecksumAddress(entries[n].address) : n \in 1..perPage}
           cache == [a \in DOMAIN s.paths \cup keys |->
                       IF a \in keys THEN a.id - s.hdk.publicKey * MAX_INDEX
                       ELSE s.paths[a]]
       IN Resolve([s EXCEPT !.paths = cache, !.tasks[t].entries = entries], t)
  ELSE Reject(s, t, ErrDerive)

\* #getAccountsBIP44: the loop from index i on, up to the unlock it awaits
getAccountsBIP44Loop(s, t, i, to) ==
  IF i >= to
  THEN Resolve(s, t)
  ELSE LET path == getPathForIndex(s, i)
           r == unlock(s, t, path, TRUE)
       IN IF r.pending
          THEN [r.st EXCEPT !.tasks[t].pc = "getPage:address",
                            !.tasks[t].i = i, !.tasks[t].to = to]
          ELSE Reject(r.st, t, r.out.err)

\* variant of getAccountsBIP44Push: the loop is left before the address
\* without history is pushed
getAccountsBIP44PushValidOnly(s, t, valid) ==
  LET i == s.tasks[t].i
      s1 == [s EXCEPT !.tasks[t].entries = Append(@, Entry(s.tasks[t].ret, i))]
  IN IF ~valid THEN Resolve(s, t)
     ELSE getAccountsBIP44Loop(s1, t, i + 1, s.tasks[t].to)

\* accounts.push and the break / next iteration, once valid is known
getAccountsBIP44Push(s, t, valid) ==
  LET i == s.tasks[t].i
      s1 == [s EXCEPT !.tasks[t].entries = Append(@, Entry(s.tasks[t].ret, i))]
  IN IF ~valid THEN Resolve(s1, t)
     ELSE getAccountsBIP44Loop(s1, t, i + 1, s.tasks[t].to)

\* await this.unlock(path) of #getAccountsBIP44 has settled
getAccountsBIP44Resume(s, t, out) ==
  IF ~out.ok THEN Reject(s, t, out.err)
  ELSE LET s1 == [s EXCEPT !.tasks[t].ret = out.val]
       IN IF s1.implementFullBIP44
          THEN [s1 EXCEPT !.tasks[t].pc = "getPage:fetch"]
          ELSE getAccountsBIP44Push(s1, t, TRUE)

getAccounts(s, t, from) ==
  IF isLedgerLiveHdPath(s)
  THEN getAccountsBIP44Loop(s, t, from, from + perPage)
  ELSE getAccountsLegacy(s, t, from)

\* await this.unlock() of #getPage has settled
getPageResume(s, t, out) ==
  IF out.ok THEN getAccounts(s, t, s.tasks[t].i) ELSE Reject(s, t, out.err)

\* the page cursor after this.page += increment and the clamp
pageAfter(p, increment) == Min(p + increment, MIN_PAGE_NUMBER)

getPage(s, t, increment) ==
  LET s1 == [s EXCEPT !.page = pageAfter(@, increment)]
      from == (s1.page - 1) * perPage
      r == unlock([s1 EXCEPT !.tasks[t].i = from], t, NoPath, TRUE)
  IN IF r.pending
     THEN [r.st EXCEPT !.tasks[t].pc = "getPage:unlock"]
     ELSE getPageResume(r.st, t, r.out)

getFirstPage(s, t) ==
  getPage([s EXCEPT !.page = 0, !.tasks[t] = Started("getFirstPage")], t, 1)
getNextPage(s, t) ==
  getPage([s EXCEPT !.tasks[t] = Started("getNextPage")], t, 1)
getPreviousPage(s, t) ==
  getPage([s EXCEPT !.tasks[t] = Started("getPreviousPage")], t, -1)

\* ----------------------------------------------------------------- signing
\* sigUtil.recoverPersonalSignature / recoverTypedSignature_v4 and the sender
\* of a signed transaction: the lowercase hex address of the key that made
\* (r, s, v).  The two recover functions throw when (r, s, v) is not a
\* signature (fromRpcSig / ecrecover); verifySignature returns false then.
recoveredSigner(payload) == Addr(payload.signer, "lc")
handleSigning(payload) == [signer |-> payload.signer, good |-> payload.good]
verifySignature(tx) == tx.good

\* unlockAccountByAddress up to the unlock it awaits
unlockAccountByAddress(s, t, address) ==
  LET checksummedAddress == toChecksumAddress(address)
  IN IF checksummedAddress \notin DOMAIN s.accountDetails
     THEN [st |-> s, out |-> Failed(ErrNoAccount), pending |-> FALSE]
     ELSE LET path == s.accountDetails[checksummedAddress].hdPath
              r == unlock([s EXCEPT !.tasks[t].retPath = path], t, path, FALSE)
          IN IF r.pending
             THEN [r EXCEPT !.st = [r.st EXCEPT !.tasks[t].pc = "unlockAccountByAddress"]]
             ELSE r

\* variant of unlockAccountByAddressResume: the reported address is not
\* compared with the requested one
unlockAccountByAddressResumeTrusting(s, t, out) ==
  IF ~out.ok THEN out ELSE Fulfilled(s.tasks[t].retPath)

\* unlockAccountByAddress after its unlock has settled: the path or the error
unlockAccountByAddressResume(s, t, out) ==
  IF ~out.ok THEN out
  ELSE IF toLowerCase(out.val) # toLowerCase(s.tasks[t].address)
       THEN Failed(ErrForeign)
       ELSE Fulfilled(s.tasks[t].retPath)

\* what each caller does once unlockAccountByAddress has settled
afterUnlockAccountByAddress(s, t, out) ==
  IF ~out.ok THEN Reject(s, t, out.err)
  ELSE IF s.tasks[t].op = "unlockAccountByAddress" THEN Resolve(s, t)
  ELSE LET action == CASE s.tasks[t].op = "signTransaction" -> LedgerSignTransaction
                       [] s.tasks[t].op = "signPersonalMessage" -> LedgerSignPersonalMessage
                       [] OTHER -> LedgerSignTypedData
           r == sendMessage(s, t, action, s.tasks[t].retPath, "none",
                            Callback(t, s.tasks[t].op, FALSE))
       IN IF r.thrown THEN Reject(r.st, t, ErrNotLoaded)
          ELSE [r.st EXCEPT !.tasks[t].pc = "sign:wait"]

\* the start of unlockAccountByAddress, #signTransaction, signPersonalMessage
\* and of signTypedData past its version check
signStart(s, t, op, address) ==
  LET s0 == [s EXCEPT !.tasks[t] = [Started(op) EXCEPT !.address = address]]
      r == unlockAccountByAddress(s0, t, address)
  IN IF r.pending THEN r.st ELSE afterUnlockAccountByAddress(r.st, t, r.out)

signTransaction(s, t, address) == signStart(s, t, "signTransaction", address)
signPersonalMessage(s, t, address) == signStart(s, t, "signPersonalMessage", address)

\* variant of signTypedData: the version is looked at after the account has
\* been looked up and its unlock requested
signTypedDataLateCheck(s, t, address, version) ==
  LET s1 == signStart(s, t, "signTypedData", address)
      s2 == [s1 EXCEPT !.tasks[t].version = version]
  IN IF version # "V4" THEN Reject(s2, t, ErrVersion) ELSE s2

signTypedData(s, t, address, version) ==
  IF version # "V4"
  THEN Reject([s EXCEPT !.tasks[t] = [Started("signTypedData") EXCEPT
                                        !.address = address, !.version = version]],
              t, ErrVersion)
  ELSE LET s1 == signStart(s, t, "signTypedData", address)
       IN [s1 EXCEPT !.tasks[t].version = version]

\* the callback #signTransaction registers (lines 803-820)
signTransactionCallback(s, t, m) ==
  IF m.success /\ isSignTransactionResponse(m.payload)
  THEN LET newOrMutatedTx == handleSigning(m.payload)
           valid == verifySignature(newOrMutatedTx)
       IN IF valid
          THEN ResolveRet(s, t, recoveredSigner(m.payload))
          ELSE Reject(s, t, ErrTxInvalid)
  ELSE Reject(s, t, ErrorOr(m.payload, ErrSignTx))

\* the callback signPersonalMessage registers (lines 533-559); thrown when
\* recoverPersonalSignature throws
signPersonalMessageCallback(s, t, m) ==
  IF m.success /\ isSignMessageResponse(m.payload)
  THEN IF ~m.payload.good
       THEN [st |-> s, thrown |-> TRUE]
       ELSE LET addressSignedWith == recoveredSigner(m.payload)
                addressesDifferent ==
                  toChecksumAddress(addressSignedWith) #
                  toChecksumAddress(s.tasks[t].address)
                s1 == IF addressesDifferent THEN Reject(s, t, ErrSigMismatch) ELSE s
            IN [st |-> ResolveRet(s1, t, addressSignedWith),
                thrown |-> FALSE]
  ELSE [st |-> Reject(s, t, ErrorOr(m.payload, ErrSignMsg)), thrown |-> FALSE]

\* signTypedData after its callback resolved the awaited promise (634-654)
signTypedDataResume(s, t, m) ==
  IF m.success /\ isSignMessageResponse(m.payload)
  THEN IF ~m.payload.good
       THEN Reject(s, t, ErrRecover)
       ELSE LET addressSignedWith == recoveredSigner(m.payload)
            IN IF toChecksumAddress(addressSignedWith) #
                  toChecksumAddress(s.tasks[t].address)
               THEN Reject(s, t, ErrSigMismatch)
               ELSE ResolveRet(s, t, addressSignedWith)
  ELSE Reject(s, t, ErrorOr(m.payload, ErrSignMsg))

\* ------------------------------------------------- make app, transport mode
attemptMakeApp(s, t) ==
  LET s0 == [s EXCEPT !.tasks[t] = Started("attemptMakeApp")]
      r == sendMessage(s0, t, LedgerMakeApp, NoPath, "none",
                       Callback(t, "attemptMakeApp", FALSE))
  IN IF r.thrown THEN Reject(r.st, t, ErrNotLoaded)
     ELSE [r.st EXCEPT !.tasks[t].pc = "attemptMakeApp:wait"]

attemptMakeAppCallback(s, t, m) ==
  IF m.success THEN Resolve(s, t) ELSE Reject(s, t, m.error)

\* variant of updateTransportMethod: resolves at once when the iframe is not
\* loaded, as its comment announces
updateTransportMethodOptimistic(s, t, transportType) ==
  IF ~s.iframeLoaded
  THEN Resolve([s EXCEPT !.delayedPromise =
                            [task |-> t, transportType |-> transportType],
                         !.tasks[t].deferred = TRUE], t)
  ELSE LET r == sendMessage(s, t, LedgerUpdateTransport, NoPath, transportType,
                            Callback(t, "updateTransportMethod", FALSE))
       IN IF r.thrown THEN Reject(r.st, t, ErrNotLoaded)
          ELSE [r.st EXCEPT !.tasks[t].pc = "updateTransportMethod:wait"]

\* variant of updateTransportMethod: a deferred configuration already stored
\* is kept
updateTransportMethodKeepFirst(s, t, transportType) ==
  IF ~s.iframeLoaded
  THEN [s EXCEPT !.delayedPromise =
                    IF @ = NoDelayed
                    THEN [task |-> t, transportType |-> transportType] ELSE @,
                 !.tasks[t].pc = "deferred", !.tasks[t].deferred = TRUE]
  ELSE LET r == sendMessage(s, t, LedgerUpdateTransport, NoPath, transportType,
                            Callback(t, "updateTransportMethod", FALSE))
       IN IF r.thrown THEN Reject(r.st, t, ErrNotLoaded)
          ELSE [r.st EXCEPT !.tasks[t].pc = "updateTransportMethod:wait"]

\* the executor of updateTransportMethod's promise, run for task t
updateTransportMethod(s, t, transportType) ==
  IF ~s.iframeLoaded
  THEN [s EXCEPT !.delayedPromise = [task |-> t, transportType |-> transportType],
                 !.tasks[t].pc = "deferred", !.tasks[t].deferred = TRUE]
  ELSE LET r == sendMessage(s, t, LedgerUpdateTransport, NoPath, transportType,
                            Callback(t, "updateTransportMethod", FALSE))
       IN IF r.thrown THEN Reject(r.st, t, ErrNotLoaded)
          ELSE [r.st EXCEPT !.tasks[t].pc = "updateTransportMethod:wait"]

\* iframe.onload after its await settled: try / catch / finally (692-701)
onloadResume(s, t, out) ==
  IF s.delayedPromise = NoDelayed
  THEN Reject(s, t, ErrType)
  ELSE LET d == s.delayedPromise.task
           s1 == IF out.ok THEN Resolve(s, d) ELSE Reject(s, d, out.err)
       IN Resolve([s1 EXCEPT !.delayedPromise = NoDelayed], t)

\* the callback updateTransportMethod registers (lines 438-444)
updateTransportMethodCallback(s, t, m) ==
  IF s.tasks[t].op = "onload"
  THEN onloadResume(s, t, IF m.success THEN Fulfilled(NoAddr) ELSE Failed(ErrTransport))
  ELSE IF m.success THEN Resolve(s, t) ELSE Reject(s, t, ErrTransport)

\* iframe.onload (lines 687-703), run as task t
onload(s, t) ==
  LET s0 == [s EXCEPT !.tasks[t] = Started("onload"), !.iframeLoaded = TRUE]
  IN IF s0.delayedPromise # NoDelayed
     THEN LET s1 == updateTransportMethod(
                      [s0 EXCEPT !.tasks[t].mode = s0.delayedPromise.transportType],
                      t, s0.delayedPromise.transportType)
          IN IF s1.tasks[t].promise = "rejected"
             THEN onloadResume([s1 EXCEPT !.tasks[t].promise = "pending",
                                          !.tasks[t].pc = "running",
                                          !.tasks[t].err = NoErr],
                               t, Failed(ErrNotLoaded))
             ELSE s1
     ELSE Resolve(s0, t)

\* ------------------------------------------------------------------ unlock
\* unlock called directly by the host, as task t
unlockCall(s, t, path, updateHdk) ==
  LET s0 == [s EXCEPT !.tasks[t] = [Started("unlock") EXCEPT !.path = path]]
      r == unlock(s0, t, path, updateHdk)
  IN IF r.pending THEN [r.st EXCEPT !.tasks[t].pc = "unlock"]
     ELSE IF r.out.ok THEN ResolveRet(r.st, t, r.out.val)
     ELSE Reject(r.st, t, r.out.err)

\* the continuation that awaits the unlock promise of task t
unlockSettled(s, t, out) ==
  CASE s.tasks[t].pc = "unlock" ->
         IF out.ok THEN ResolveRet(s, t, out.val) ELSE Reject(s, t, out.err)
    [] s.tasks[t].pc = "addAccounts:root" -> addAccountsThen(s, t, out)
    [] s.tasks[t].pc = "addAccounts:unlock" -> addAccountsResume(s, t, out)
    [] s.tasks[t].pc = "getPage:unlock" -> getPageResume(s, t, out)
    [] s.tasks[t].pc = "getPage:address" -> getAccountsBIP44Resume(s, t, out)
    [] s.tasks[t].pc = "unlockAccountByAddress" ->
         afterUnlockAccountByAddress(s, t, unlockAccountByAddressResume(s, t, out))
    [] OTHER -> s

\* --------------------------------------------------------------- listener
\* messageCallback(params.data) for the callback registered under key, with
\* the continuations it wakes; thrown when the callback throws
invokeCallback(s, key, m) ==
  LET cb == s.messageCallbacks[key]
      t == cb.task
      s0 == [s EXCEPT !.tasks[t].resp = m, !.tasks[t].awaited = s.tasks[t].token]
  IN CASE cb.kind = "unlock" ->
            LET r == unlockCallback(s0, cb, m)
            IN [st |-> IF s.tasks[t].token = key /\ s.tasks[t].promise = "pending"
                       THEN unlockSettled(r.st, t, r.out)
                       ELSE [r.st EXCEPT !.tasks = s.tasks],
                thrown |-> FALSE]
       [] cb.kind = "signTransaction" ->
            [st |-> signTransactionCallback(s0, t, m), thrown |-> FALSE]
       [] cb.kind = "signPersonalMessage" -> signPersonalMessageCallback(s0, t, m)
       [] cb.kind = "signTypedData" ->
            [st |-> signTypedDataResume(s0, t, m), thrown |-> FALSE]
       [] cb.kind = "attemptMakeApp" ->
            [st |-> attemptMakeAppCallback(s0, t, m), thrown |-> FALSE]
       [] OTHER ->
            [st |-> updateTransportMethodCallback(s0, t, m), thrown |-> FALSE]

\* variant of callbackKey: a response goes to the oldest pending request
callbackKeyOldest(s, m) ==
  IF m.messageId \in DOMAIN s.messageCallbacks
  THEN CHOOSE k \in DOMAIN s.messageCallbacks :
         \A j \in DOMAIN s.messageCallbacks : k <= j
  ELSE m.messageId

\* this.messageCallbacks[params.data.messageId]: the key looked up
callbackKey(s, m) == m.messageId

\* variant of isConnectionChange: the action of the message is not looked at
isConnectionChangeAnyAction(m) == isConnectionChangedResponse(m.payload)

\* the else-if condition of the listener (lines 724-727)
isConnectionChange(m) ==
  m.action = LedgerConnectionChange /\ isConnectionChangedResponse(m.payload)

Count(f, k) == IF k \in DOMAIN f THEN f[k] ELSE 0

\* variant of #eventListener: the origin of the message is not looked at
eventListenerAnyOrigin(s, m) ==
  IF ~m.hasData THEN s
  ELSE LET key == callbackKey(s, m)
       IN IF key \in DOMAIN s.messageCallbacks
          THEN LET r == invokeCallback(s, key, m)
                   s1 == [r.st EXCEPT !.invoked =
                             Put(@, <<m.messageId, key>>,
                                 Count(@, <<m.messageId, key>>) + 1)]
               IN IF r.thrown THEN s1
                  ELSE [s1 EXCEPT !.messageCallbacks = Delete(@, m.messageId)]
          ELSE IF isConnectionChange(m)
               THEN [s EXCEPT !.isDeviceConnected = m.payload.connected]
               ELSE s

\* #eventListener (lines 707-733)
eventListener(s, m) ==
  IF m.origin # BRIDGE_ORIGIN THEN s
  ELSE IF ~m.hasData THEN s
  ELSE LET key == callbackKey(s, m)
       IN IF key \in DOMAIN s.messageCallbacks
          THEN LET r == invokeCallback(s, key, m)
                   s1 == [r.st EXCEPT !.invoked =
                             Put(@, <<m.messageId, key>>,
                                 Count(@, <<m.messageId, key>>) + 1)]
               IN IF r.thrown THEN s1
                  ELSE [s1 EXCEPT !.messageCallbacks = Delete(@, m.messageId)]
          ELSE IF isConnectionChange(m)
               THEN [s EXCEPT !.isDeviceConnected = m.payload.connected]
               ELSE s

\* ------------------------------------------------------------- deserialize
\* #getPathIndex: the cached index, else the first index below MAX_INDEX
\* whose derived address is the one looked for; ok is FALSE when it throws
\* (derive without a public key, or 'Unknown address')
getPathIndex(s, checksummedAddress) ==
  IF checksummedAddress \in DOMAIN s.paths
  THEN [ok |-> TRUE, index |-> s.paths[checksummedAddress]]
  ELSE IF ~CanDerive(s, 0) THEN [ok |-> FALSE, index |-> 0]
  ELSE LET found == {i \in 0..(MAX_INDEX - 1) :
                        checksummedAddress = addressFromIndex(s, i)}
       IN IF found # {}
          THEN [ok |-> TRUE, index |-> CHOOSE i \in found : \A j \in found : i <= j]
          ELSE [ok |-> FALSE, index |-> 0]

pathFromAddress(s, address) ==
  LET r == getPathIndex(s, toChecksumAddress(address))
  IN [ok |-> r.ok, path |-> getPathForIndex(s, r.index)]

\* #migrateAccountDetails.  Each iteration writes the entry of its own
\* account and reads only paths and hdk, so the entries are given at once.
migrateAccountDetails(s, opts) ==
  LET s1 == IF isLedgerLiveHdPath(s) /\ opts.hasAccountIndexes
            THEN [s EXCEPT !.accountDetails =
                    [a \in DOMAIN @ \cup DOMAIN opts.accountIndexes |->
                       IF a \in DOMAIN opts.accountIndexes
                       THEN [bip44 |-> TRUE,
                             hdPath |-> getPathForIndex(s, opts.accountIndexes[a])]
                       ELSE @[a]]]
            ELSE s
      lacking == {a \in Range(s1.accounts) : ~accountHasDetails(s1, a)}
      migrated == {a \in lacking : pathFromAddress(s1, a).ok}
      keys == {toChecksumAddress(a) : a \in migrated}
  IN IF ~isLedgerLiveHdPath(s1)
     THEN [s1 EXCEPT !.accountDetails =
             [k \in DOMAIN @ \cup keys |->
                IF k \in keys
                THEN [bip44 |-> FALSE, hdPath |-> pathFromAddress(s1, k).path]
                ELSE @[k]]]
     ELSE s1

\* variant of deserialize: a legacy account that cannot be migrated fails
\* the whole call
deserializeStrict(s, t, opts) ==
  LET s0 == [s EXCEPT !.tasks[t] = [Started("deserialize") EXCEPT !.opts = opts]]
      s1 == [s0 EXCEPT !.hdPath = opts.hdPath, !.accounts = opts.accounts,
                       !.accountDetails = opts.accountDetails]
      s2 == IF ~opts.hasAccountDetails THEN migrateAccountDetails(s1, opts) ELSE s1
      s3 == [s2 EXCEPT !.implementFullBIP44 = opts.implementFullBIP44]
      Keep(account) == accountHasDetails(s3, account)
  IN IF \E a \in Range(s3.accounts) : ~Keep(a)
     THEN Reject(s2, t, ErrUnknownAddress)
     ELSE Resolve(s3, t)

\* deserialize(opts), run as task t.  opts.bridgeUrl is absent or the URL in
\* use, so #setBridgeUrl changes nothing.
deserialize(s, t, opts) ==
  LET s0 == [s EXCEPT !.tasks[t] = [Started("deserialize") EXCEPT !.opts = opts]]
      s1 == [s0 EXCEPT !.hdPath = opts.hdPath, !.accounts = opts.accounts,
                       !.accountDetails = opts.accountDetails]
      s2 == IF ~opts.hasAccountDetails THEN migrateAccountDetails(s1, opts) ELSE s1
      s3 == [s2 EXCEPT !.implementFullBIP44 = opts.implementFullBIP44]
      Keep(account) == accountHasDetails(s3, account)
  IN Resolve([s3 EXCEPT !.accounts = Filter(@, Keep)], t)

\* ------------------------------------------------------ synchronous methods
\* variant of setHdPath: the key is kept when the path changes
setHdPathKeepKey(s, p) == [s EXCEPT !.hdPath = p]

setHdPath(s, p) ==
  LET s1 == IF s.hdPath # p THEN [s EXCEPT !.hdk = NoKey] ELSE s
  IN [s1 EXCEPT !.hdPath = p]

setAccountToUnlock(s, index) == [s EXCEPT !.unlockedAccount = index]

\* variant of forgetDevice: the path cache is kept
forgetDeviceKeepPaths(s) ==
  [s EXCEPT !.accounts = <<>>, !.page = 0, !.unlockedAccount = 0,
            !.accountDetails = EmptyMap, !.hdk = NoKey]

forgetDevice(s) ==
  [s EXCEPT !.accounts = <<>>, !.page = 0, !.unlockedAccount = 0,
            !.paths = EmptyMap, !.accountDetails = EmptyMap, !.hdk = NoKey]

\* removeAccount called by the host; the task records whether it threw
removeAccountCall(s, t, address) ==
  LET s0 == [s EXCEPT !.tasks[t] = [Started("removeAccount") EXCEPT !.address = address]]
  IN IF ~removeAccountFinds(s0, address)
     THEN Reject(s0, t, ErrNotFound)
     ELSE Resolve(removeAccount(s0, address), t)

\* setHdPath called by the host; the task records the call
setHdPathCall(s, t, p) ==
  Resolve(setHdPath([s EXCEPT !.tasks[t] = [Started("setHdPath") EXCEPT
                                              !.path = p, !.oldPath = s.hdPath]],
                    p), t)

\* forgetDevice called by the host; the task records the call
forgetDeviceCall(s, t) ==
  Resolve(forgetDevice([s EXCEPT !.tasks[t] = Started("forgetDevice")]), t)

\* updateTransportMethod called by the host, as task t
updateTransportMethodCall(s, t, transportType) ==
  updateTransportMethod(
    [s EXCEPT !.tasks[t] = [Started("updateTransportMethod") EXCEPT !.mode = transportType]],
    t, transportType)

\* #hasPreviousTransactions settled for the page task t
hasPreviousTransactionsSettled(s, t, fetched, hasTxs) ==
  IF fetched
  THEN getAccountsBIP44Push([s EXCEPT !.tasks[t].history = Append(@, hasTxs)],
                            t, hasTxs)
  ELSE Reject(s, t, ErrFetch)

\* ----------------------------------------------------------------- actions
\* the host's next call runs as the first unused call task, the next load
\* event's handler as the first unused load task
FreeTask(t) ==
  /\ t \in CallTasks
  /\ tasks[t].pc = "idle"
  /\ \A u \in CallTasks : u < t => tasks[u].pc # "idle"

FreeLoadTask(t) ==
  /\ t \in LoadTasks
  /\ tasks[t].pc = "idle"
  /\ \A u \in LoadTasks : u < t => tasks[u].pc # "idle"

TransportTypes == {"webhid", "u2f"}
Versions == {"V4", "V3", "none"}
Amounts == 1..MaxAmount
UnlockIndexes == 0..MaxUnlockIndex

Load == \E t \in Tasks : FreeLoadTask(t) /\ Becomes(onload(State, t))

CallUnlock(unlockArgs) ==
  \E t \in Tasks, args \in unlockArgs :
    FreeTask(t) /\ Becomes(unlockCall(State, t, args[1], args[2]))

CallAttemptMakeApp ==
  \E t \in Tasks : FreeTask(t) /\ Becomes(attemptMakeApp(State, t))

CallUpdateTransportMethod ==
  \E t \in Tasks, transportType \in TransportTypes :
    FreeTask(t) /\ Becomes(updateTransportMethodCall(State, t, transportType))

CallAddAccounts(amounts) ==
  \E t \in Tasks, amount \in amounts :
    FreeTask(t) /\ Becomes(addAccounts(State, t, amount))

CallRemoveAccount(addresses) ==
  \E t \in Tasks, address \in addresses :
    FreeTask(t) /\ Becomes(removeAccountCall(State, t, address))

CallSetAccountToUnlock ==
  \E index \in UnlockIndexes :
    unlockedAccount # index /\ Becomes(setAccountToUnlock(State, index))

CallSetHdPath ==
  \E t \in Tasks, p \in HdPaths :
    FreeTask(t) /\ Becomes(setHdPathCall(State, t, p))

CallDeserialize(options) ==
  \E t \in Tasks, opts \in options :
    FreeTask(t) /\ Becomes(deserialize(State, t, opts))

CallForgetDevice ==
  \E t \in Tasks : FreeTask(t) /\ Becomes(forgetDeviceCall(State, t))

CallGetFirstPage == \E t \in Tasks : FreeTask(t) /\ Becomes(getFirstPage(State, t))
CallGetNextPage == \E t \in Tasks : FreeTask(t) /\ Becomes(getNextPage(State, t))
CallGetPreviousPage == \E t \in Tasks : FreeTask(t) /\ Becomes(getPreviousPage(State, t))

CallUnlockAccountByAddress(addresses) ==
  \E t \in Tasks, address \in addresses :
    FreeTask(t) /\ Becomes(signStart(State, t, "unlockAccountByAddress", address))

CallSignTransaction(addresses) ==
  \E t \in Tasks, address \in addresses :
    FreeTask(t) /\ Becomes(signTransaction(State, t, address))

CallSignPersonalMessage(addresses) ==
  \E t \in Tasks, address \in addresses :
    FreeTask(t) /\ Becomes(signPersonalMessage(State, t, address))

CallSignTypedData(addresses, versions) ==
  \E t \in Tasks, address \in addresses, version \in versions :
    FreeTask(t) /\ Becomes(signTypedData(State, t, address, version))

\* the chain-data service answers a page task waiting in #hasPreviousTransactions
FetchSettles ==
  \E t \in Tasks, fetched \in BOOLEAN, hasTxs \in BOOLEAN :
    /\ tasks[t].pc = "getPage:fetch"
    /\ fetched \/ ~hasTxs
    /\ Becomes(hasPreviousTransactionsSettled(State, t, fetched, hasTxs))

\* The window messages that can arrive: the bridge answers requests it was
\* sent (messageIds are random uuids, so no one else knows one), any number
\* of times, or sends a message of its own with an id the keyring never
\* issued; other origins can post anything too.  A shape is the
\* <<action, success, payload>> of a message.
KnownIds == {m.messageId : m \in outbox} \cup {NoToken}

MessagesOf(origins, shapes) ==
  {Message(o, TRUE, id, shape[1], shape[2], shape[3]) :
     o \in origins, id \in KnownIds, shape \in shapes}

\* the messages that answer a request still waiting for its reply
Answers(messages) == {m \in messages : m.messageId \in DOMAIN messageCallbacks}

\* as Receive, with its own limit on the messages dispatched
ReceiveUpTo(limit, messages) ==
  /\ dispatched < limit
  /\ \E m \in messages :
       Becomes([eventListener(State, m) EXCEPT !.inbound = m, !.dispatched = @ + 1])

Receive(messages) ==
  /\ dispatched < MaxInbound
  /\ \E m \in messages :
       Becomes([eventListener(State, m) EXCEPT !.inbound = m, !.dispatched = @ + 1])

\* ------------------------------------------------------------ construction
\* The state the constructor leaves for the options given: deserialize(opts)
\* with a consistent accounts / accountDetails pair, then #setupIframe.
Constructed(opts) ==
  /\ page = 0
  /\ unlockedAccount = 0
  /\ accounts = opts.accounts
  /\ accountDetails = opts.accountDetails
  /\ hdk = NoKey
  /\ hdPath = opts.hdPath
  /\ paths = EmptyMap
  /\ implementFullBIP44 = opts.implementFullBIP44
  /\ iframeLoaded = FALSE
  /\ isDeviceConnected = FALSE
  /\ messageCallbacks = EmptyMap
  /\ delayedPromise = NoDelayed
  /\ uuid = 0
  /\ outbox = {}
  /\ tasks = [t \in Tasks |-> NewTask]
  /\ inbound = NoMessage
  /\ dispatched = 0
  /\ invoked = EmptyMap

EmptyOpts(path) == Opts(path, <<>>, EmptyMap, FALSE)

\* one Ledger Live account, as serialize() would have stored it
OneAccountOpts ==
  Opts(ledgerLivePath, <<Addr(1, "cs")>>,
       (Addr(1, "cs") :> [bip44 |-> TRUE, hdPath |-> Path(TRUE, "44'/60'/0'/0/0")]),
       FALSE)

\* shapes of the bridge's messages
UnlockedShape(a) == <<LedgerUnlock, TRUE, AddressPayload(a, a.id)>>
FailedShape == <<LedgerUnlock, FALSE, ErrorPayload>>
AckShape == <<LedgerUpdateTransport, TRUE, AckPayload>>
SignedMessageShape(signer, good) ==
  <<LedgerSignPersonalMessage, TRUE, SignMsgPayload(signer, good)>>
SignedTransactionShape(signer, good) ==
  <<LedgerSignTransaction, TRUE, SignTxPayload(signer, good)>>
ConnectionShapes ==
  {<<LedgerConnectionChange, TRUE, ConnPayload(c)>> : c \in BOOLEAN}

\* ---------------------------------------- the deferred transport configuration
ReceiveDeferred == Receive(MessagesOf({BRIDGE_ORIGIN}, {AckShape, FailedShape}))

InitDeferred == Constructed(EmptyOpts(hdPathString))

NextDeferred ==
  \/ Load
  \/ CallUpdateTransportMethod
  \/ ReceiveDeferred

SpecDeferred == InitDeferred /\ [][NextDeferred]_vars

\* ------------------------------------------------ the request/response channel
ChannelShapes ==
  {UnlockedShape(Addr(1, "cs")), FailedShape, AckShape,
   SignedMessageShape(1, TRUE), SignedMessageShape(1, FALSE)}

ReceiveChannel == Receive(MessagesOf({BRIDGE_ORIGIN}, ChannelShapes))

InitChannel == Constructed(OneAccountOpts)

NextChannel ==
  \/ Load
  \/ CallUnlock({<<NoPath, TRUE>>})
  \/ CallAttemptMakeApp
  \/ CallSignPersonalMessage({Addr(1, "lc")})
  \/ ReceiveChannel

SpecChannel == InitChannel /\ [][NextChannel]_vars

\* ------------------------------------------------------- unsolicited messages
EventShapes ==
  {UnlockedShape(Addr(1, "cs")), AckShape,
   <<LedgerConnectionChange, TRUE, AckPayload>>,
   <<LedgerUnlock, TRUE, ConnPayload(FALSE)>>} \cup ConnectionShapes

ReceiveEvents ==
  Receive(MessagesOf({BRIDGE_ORIGIN}, EventShapes)
          \cup MessagesOf({OtherOrigin}, {AckShape})
          \cup {Message(BRIDGE_ORIGIN, FALSE, NoToken, "none", FALSE, AckPayload)})

InitEvents == Constructed(EmptyOpts(hdPathString))

NextEvents ==
  \/ Load
  \/ CallUnlock({<<hdPathString, FALSE>>})
  \/ CallAttemptMakeApp
  \/ ReceiveEvents

SpecEvents == InitEvents /\ [][NextEvents]_vars

\* ----------------------------------------------------------------- signing
SigningShapes ==
  {UnlockedShape(Addr(1, "cs")), UnlockedShape(Addr(2, "cs")), FailedShape,
   SignedMessageShape(1, TRUE), SignedMessageShape(2, TRUE),
   SignedMessageShape(1, FALSE),
   SignedTransactionShape(1, TRUE), SignedTransactionShape(2, TRUE),
   SignedTransactionShape(2, FALSE)}

ReceiveSigning == Receive(MessagesOf({BRIDGE_ORIGIN}, SigningShapes))

InitSigning == Constructed(OneAccountOpts)

NextSigning ==
  \/ Load
  \/ CallSignTransaction({Addr(1, "cs"), Addr(2, "cs")})
  \/ CallSignPersonalMessage({Addr(1, "cs"), Addr(1, "lc")})
  \/ CallSignTypedData({Addr(1, "cs")}, Versions)
  \/ ReceiveSigning

SpecSigning == InitSigning /\ [][NextSigning]_vars

\* ---------------------------------------------------------- the account store
RemovableAddrs ==
  ChannelAddrs \cup {toLowerCase(accounts[n]) : n \in 1..Len(accounts)}

ReceiveAccounts ==
  Receive(MessagesOf({BRIDGE_ORIGIN},
                     {UnlockedShape(a) : a \in ChannelAddrs} \cup {FailedShape}))

InitAccounts == \E p \in HdPaths : Constructed(EmptyOpts(p))

NextAccounts ==
  \/ Load
  \/ CallAddAccounts(Amounts)
  \/ CallRemoveAccount(RemovableAddrs)
  \/ CallSetAccountToUnlock
  \/ ReceiveAccounts

SpecAccounts == InitAccounts /\ [][NextAccounts]_vars

\* ------------------------------------------------------------------- paging
ReceivePaging ==
  Receive(MessagesOf({BRIDGE_ORIGIN}, {UnlockedShape(Addr(1, "cs")), FailedShape}))

InitPaging ==
  \E p \in HdPaths, full \in BOOLEAN : Constructed(Opts(p, <<>>, EmptyMap, full))

NextPaging ==
  \/ Load
  \/ CallGetFirstPage
  \/ CallGetNextPage
  \/ CallGetPreviousPage
  \/ CallAddAccounts(Amounts)
  \/ CallForgetDevice
  \/ ReceivePaging
  \/ FetchSettles

SpecPaging == InitPaging /\ [][NextPaging]_vars

\* ------------------------------------------- adding, removing and forgetting
\* a stored list that spells one account twice; both spellings have details
\* under the checksummed key, so deserialize keeps both
TwoSpellingsOpts ==
  Opts(ledgerLivePath, <<Addr(1, "lc"), Addr(1, "cs")>>,
       (Addr(1, "cs") :> [bip44 |-> TRUE, hdPath |-> Path(TRUE, "44'/60'/0'/0/0")]),
       FALSE)

StoreAddrs == {Addr(1, "cs"), Addr(1, "lc"), Addr(2, "cs")}

NextStore ==
  \/ Load
  \/ CallAddAccounts({1})
  \/ CallRemoveAccount(StoreAddrs)
  \/ CallForgetDevice
  \/ Receive(MessagesOf({BRIDGE_ORIGIN},
                        {UnlockedShape(Addr(1, "cs")), UnlockedShape(Addr(1, "lc"))}))

SpecStore ==
  /\ Constructed(TwoSpellingsOpts)
  /\ [][NextStore]_vars

\* ------------------------------------------------------- typed-data signing
NextTyped ==
  \/ Load
  \/ CallSignTypedData({Addr(1, "cs")}, Versions)
  \/ Receive(MessagesOf({BRIDGE_ORIGIN},
                        {UnlockedShape(Addr(1, "cs")), SignedMessageShape(1, TRUE)}))

SpecTyped == Constructed(OneAccountOpts) /\ [][NextTyped]_vars

\* ------------------------------------------ signing with another device's seed
NextForeign ==
  \/ Load
  \/ CallUnlockAccountByAddress({Addr(1, "cs")})
  \/ CallSignTransaction({Addr(1, "cs")})
  \/ CallSignPersonalMessage({Addr(1, "cs")})
  \/ CallSignTypedData({Addr(1, "cs")}, {"V4"})
  \/ Receive(MessagesOf({BRIDGE_ORIGIN},
                        {UnlockedShape(Addr(1, "lc")), UnlockedShape(Addr(2, "cs"))}))

SpecForeign == Constructed(OneAccountOpts) /\ [][NextForeign]_vars

\* --------------------------------------------- details without a list entry
\* stored data whose accountDetails names an account the list does not hold
OrphanDetailsOpts ==
  Opts(ledgerLivePath, <<>>,
       (Addr(1, "cs") :> [bip44 |-> TRUE, hdPath |-> Path(TRUE, "44'/60'/0'/0/0")]),
       FALSE)

NextOrphan ==
  \/ Load
  \/ CallDeserialize({OrphanDetailsOpts, OneAccountOpts})
  \/ CallUnlockAccountByAddress({Addr(1, "cs")})
  \/ CallSignTransaction({Addr(1, "cs")})
  \/ CallSignPersonalMessage({Addr(1, "cs")})
  \/ CallSignTypedData({Addr(1, "cs")}, {"V4"})
  \/ Receive(MessagesOf({BRIDGE_ORIGIN},
                        {UnlockedShape(Addr(1, "cs")), SignedMessageShape(1, TRUE)}))

SpecOrphan == Constructed(EmptyOpts(ledgerLivePath)) /\ [][NextOrphan]_vars

\* ------------------------------------------------------ restoring stored data
\* the account at index i of the device whose root key is k
Derived(k, i, form) == Addr(k * MAX_INDEX + i, form)

\* Stored data in the legacy format (no accountDetails), under both path
\* policies, and in the current format.  Accounts 5 and 6 are accounts no
\* index of the device in use derives.
RestoreOptions ==
  {OptsWith(hdPathString, <<Derived(1, 0, "cs"), Addr(5, "cs")>>,
            FALSE, EmptyMap, FALSE, EmptyMap, FALSE),
   OptsWith(hdPathString, <<Addr(5, "cs"), Derived(1, 1, "lc")>>,
            FALSE, EmptyMap, TRUE, (Addr(5, "cs") :> 0), FALSE),
   OptsWith(ledgerLivePath, <<Addr(5, "cs"), Addr(6, "lc")>>,
            FALSE, EmptyMap, TRUE, (Addr(5, "cs") :> 3), FALSE),
   OptsWith(ledgerLivePath, <<Addr(6, "lc")>>,
            FALSE, EmptyMap, TRUE, (Addr(6, "lc") :> 1), TRUE),
   OptsWith(ledgerLivePath, <<Addr(5, "cs")>>,
            FALSE, EmptyMap, FALSE, EmptyMap, FALSE),
   Opts(hdPathString, <<Derived(1, 0, "cs"), Addr(5, "cs")>>,
        (Addr(5, "cs") :> [bip44 |-> FALSE, hdPath |-> Path(TRUE, "44'/60'/0'/7")]),
        FALSE),
   OneAccountOpts}

NextRestore ==
  \/ Load
  \/ CallUnlock({<<NoPath, TRUE>>})
  \/ CallDeserialize(RestoreOptions)
  \/ Receive(MessagesOf({BRIDGE_ORIGIN}, {UnlockedShape(Addr(1, "cs"))}))

SpecRestore == Constructed(EmptyOpts(hdPathString)) /\ [][NextRestore]_vars

\* ------------------------------------------------- unlocking and locking again
NextUnlock ==
  \/ Load
  \/ CallUnlock({<<NoPath, TRUE>>, <<ledgerLivePath, TRUE>>})
  \/ CallSetHdPath
  \/ CallForgetDevice
  \/ Receive(MessagesOf({BRIDGE_ORIGIN}, {UnlockedShape(Addr(1, "cs")), FailedShape}))

SpecUnlock == Constructed(EmptyOpts(hdPathString)) /\ [][NextUnlock]_vars

\* -------------------------------------------------------- forgetting the device
\* one account stored under the legacy path
LegacyAccountOpts ==
  Opts(hdPathString, <<Addr(5, "cs")>>,
       (Addr(5, "cs") :> [bip44 |-> FALSE, hdPath |-> Path(TRUE, "44'/60'/0'/7")]),
       FALSE)

NextForget ==
  \/ Load
  \/ CallGetFirstPage
  \/ CallSetAccountToUnlock
  \/ CallForgetDevice
  \/ Receive(MessagesOf({BRIDGE_ORIGIN},
                        {UnlockedShape(Addr(1, "cs")),
                         <<LedgerConnectionChange, TRUE, ConnPayload(TRUE)>>}))

SpecForget == Constructed(LegacyAccountOpts) /\ [][NextForget]_vars

\* ---------------------------------------------- discovery under the Ledger Live path
NextDiscover ==
  \/ Load
  \/ CallGetFirstPage
  \/ FetchSettles
  \/ ReceiveUpTo(MaxPageInbound,
                 Answers(MessagesOf({BRIDGE_ORIGIN}, {UnlockedShape(Addr(1, "cs"))})))

SpecDiscover ==
  /\ \E full \in BOOLEAN : Constructed(Opts(ledgerLivePath, <<>>, EmptyMap, full))
  /\ [][NextDiscover]_vars

\* ------------------------------------------------- messages of a foreign origin
NextOrigin ==
  \/ Load
  \/ CallUnlock({<<NoPath, TRUE>>})
  \/ Receive(MessagesOf(Origins, {UnlockedShape(Addr(1, "cs"))} \cup ConnectionShapes))

SpecOrigin == Constructed(EmptyOpts(hdPathString)) /\ [][NextOrigin]_vars

\* ------------------------------------- the path switched while accounts are added
NextSwitch ==
  \/ Load
  \/ CallAddAccounts({1})
  \/ CallSetHdPath
  \/ Receive(MessagesOf({BRIDGE_ORIGIN}, {UnlockedShape(Addr(1, "cs"))}))

SpecSwitch == Constructed(EmptyOpts(ledgerLivePath)) /\ [][NextSwitch]_vars

\* ====================================================================== claims
SignOps == {"signTransaction", "signPersonalMessage", "signTypedData"}
PageOps == {"getFirstPage", "getNextPage", "getPreviousPage"}

\* ---------------------------------------------------------------------- C1
\* the bridge's success response handed to task t carries signature
\* components that recover to an account other than the requested one
WrongSigner(t) ==
  LET m == tasks[t].resp
  IN /\ tasks[t].op \in SignOps
     /\ m.origin = BRIDGE_ORIGIN
     /\ m.success
     /\ m.payload.kind \in {"signTx", "signMsg"}
     /\ m.payload.good
     /\ toChecksumAddress(recoveredSigner(m.payload)) #
        toChecksumAddress(tasks[t].address)

\* C1: a signing operation whose success response recovers to a signer other
\* than the requested address is rejected, never resolved.
C1_WrongSignerRejected ==
  \A t \in CallTasks : WrongSigner(t) => tasks[t].promise = "rejected"

\* ---------------------------------------------------------------------- C2
\* C2: once the addAccounts and removeAccount calls made so far have
\* completed, the addresses in the account list are exactly the keys of
\* accountDetails.
C2_ListMatchesDetails ==
  (\A t \in CallTasks : tasks[t].promise # "pending") =>
    Range(accounts) = DOMAIN accountDetails

\* ---------------------------------------------------------------------- C3
\* C3: dispatch is by token only: a callback is invoked only by a message
\* carrying the token it was registered under, is invoked once, and its entry
\* is gone from the pending table afterwards (so a later message with the
\* same token finds no callback).
C3_ExactlyOnceByToken ==
  \A p \in DOMAIN invoked :
    /\ p[1] = p[2]
    /\ invoked[p] = 1
    /\ p[2] \notin DOMAIN messageCallbacks

\* ---------------------------------------------------------------------- C4
\* C4: every message handed to an operation carries the token of the request
\* that operation was waiting on, whatever the order of arrival.
C4_OwnResponse ==
  \A t \in Tasks :
    tasks[t].resp # NoMessage => tasks[t].resp.messageId = tasks[t].awaited

\* two requests in flight, the later one answered first
C4_Witness ==
  \E t1, t2 \in CallTasks :
    /\ tasks[t1].token # NoToken
    /\ tasks[t1].token < tasks[t2].token
    /\ {tasks[t1].token, tasks[t2].token} \subseteq {m.messageId : m \in outbox}
    /\ tasks[t1].resp = NoMessage
    /\ tasks[t1].promise = "pending"
    /\ tasks[t2].promise = "resolved"
    /\ tasks[t2].resp.messageId = tasks[t2].token

\* ---------------------------------------------------------------------- C5
\* the bridge's successful reply to request id reached the load handler
Acked(id) ==
  \E u \in LoadTasks :
    /\ tasks[u].resp.messageId = id
    /\ tasks[u].resp.origin = BRIDGE_ORIGIN
    /\ tasks[u].resp.success

DeferredCalls == {t \in CallTasks : tasks[t].deferred}
LastDeferred == CHOOSE t \in DeferredCalls : \A u \in DeferredCalls : u <= t
ReplayMessages ==
  {m \in outbox : \E u \in LoadTasks : tasks[u].token = m.messageId}

C6_Slot ==
  DeferredCalls # {} =>
    /\ ~iframeLoaded =>
         delayedPromise = [task |-> LastDeferred,
                           transportType |-> tasks[LastDeferred].mode]
    /\ \A m \in ReplayMessages :
         /\ m.action = LedgerUpdateTransport
         /\ m.transportType = tasks[LastDeferred].mode

C6_OnReadiness ==
  ~iframeLoaded /\ iframeLoaded' /\ DeferredCalls # {} =>
    /\ Cardinality(outbox' \ outbox) = 1
    /\ \A m \in outbox' \ outbox :
         /\ m.action = LedgerUpdateTransport
         /\ m.transportType = tasks[LastDeferred].mode

\* C6: before readiness the deferred slot holds the mode of the last call
\* only; the readiness transition sends exactly one update-transport request,
\* carrying that mode, and no replayed request carries any other mode.
C6_LastModeOnly == []C6_Slot /\ [][C6_OnReadiness]_vars

\* two calls with different modes before readiness, then the replay
C6_Witness ==
  /\ \E t1, t2 \in DeferredCalls : tasks[t1].mode # tasks[t2].mode
  /\ iframeLoaded
  /\ ReplayMessages # {}

\* ---------------------------------------------------------------------- C7
\* C7: the ready flag never returns to false, and all load events together
\* send at most one replay of the deferred configuration and raise no error.
C7_SingleReplay ==
  /\ [](/\ Cardinality(ReplayMessages) <= 1
        /\ \A u \in LoadTasks : tasks[u].promise # "rejected")
  /\ [][iframeLoaded => iframeLoaded']_vars

\* ---------------------------------------------------------------------- C8
\* C8: while the channel is not ready nothing is posted to the bridge, and
\* every operation that tried to send a request has failed with the
\* not-ready error.
C8_NotReadyFails ==
  ~iframeLoaded =>
    /\ outbox = {}
    /\ \A t \in CallTasks :
         tasks[t].token # NoToken =>
           tasks[t].promise = "rejected" /\ tasks[t].err = ErrNotLoaded

C8_Witness ==
  /\ ~iframeLoaded
  /\ \E t \in CallTasks :
       /\ tasks[t].op = "signPersonalMessage"
       /\ tasks[t].token # NoToken
       /\ tasks[t].err = ErrNotLoaded
  /\ \E t \in CallTasks : tasks[t].op = "unlock" /\ tasks[t].err = ErrNotLoaded

\* ---------------------------------------------------------------------- C9
\* the step dispatches a bridge message that matches no pending callback
UnmatchedDispatch ==
  /\ dispatched' = dispatched + 1
  /\ inbound'.origin = BRIDGE_ORIGIN
  /\ ~inbound'.hasData \/ inbound'.messageId \notin DOMAIN messageCallbacks

IsConnectionEvent(m) ==
  m.hasData /\ m.action = LedgerConnectionChange /\ m.payload.kind = "conn"

C9_Step ==
  UnmatchedDispatch =>
    /\ invoked' = invoked
    /\ tasks' = tasks
    /\ outbox' = outbox
    /\ <<page, unlockedAccount, accounts, accountDetails, hdk, hdPath, paths,
         implementFullBIP44, iframeLoaded, messageCallbacks, delayedPromise>>' =
       <<page, unlockedAccount, accounts, accountDetails, hdk, hdPath, paths,
         implementFullBIP44, iframeLoaded, messageCallbacks, delayedPromise>>
    /\ isDeviceConnected' = IF IsConnectionEvent(inbound')
                            THEN inbound'.payload.connected
                            ELSE isDeviceConnected

\* C9: an unmatched connection-change event sets deviceConnected to the
\* event's value and invokes no callback; any other unmatched message leaves
\* the keyring state unchanged and fails nothing.
C9_UnmatchedMessages == [][C9_Step]_vars

\* an event connected the device, and a later unmatched message that is not
\* an event (it carries a connected field under another action) left it so
C9_Witness ==
  /\ isDeviceConnected
  /\ inbound.origin = BRIDGE_ORIGIN
  /\ inbound.action = LedgerUnlock
  /\ inbound.payload = ConnPayload(FALSE)
  /\ \A p \in DOMAIN invoked : p[1] # inbound.messageId

\* --------------------------------------------------------------------- C10
C10_Step ==
  \A t \in CallTasks :
    tasks[t].pc = "idle" /\ tasks'[t].op \in PageOps => page' >= 1

\* C10: right after every getFirstPage, getNextPage or getPreviousPage call
\* the page cursor is at least 1.
C10_CursorAtLeastOne == [][C10_Step]_vars

\* --------------------------------------------------------------------- C11
\* the step is the host's call of op, run as task t
CallStep(t, op) == tasks[t].pc = "idle" /\ tasks'[t].op = op

\* the list holds the address in some letter case
Listed(list, address) ==
  \E n \in 1..Len(list) : toLowerCase(list[n]) = toLowerCase(address)

C11_Step ==
  \A t \in CallTasks :
    CallStep(t, "removeAccount") =>
      LET address == tasks'[t].address
      IN /\ tasks'[t].promise = "resolved" =>
              \A f \in Forms : ~Listed(accounts', Addr(address.id, f))
         /\ ~Listed(accounts, address) =>
              /\ tasks'[t].promise = "rejected"
              /\ tasks'[t].err = ErrNotFound
              /\ accounts' = accounts
              /\ accountDetails' = accountDetails

\* C11: a successful removeAccount(address) leaves no spelling of the address
\* in the account list, and removeAccount of an address the list does not
\* hold (in any letter case) fails with the not-found error and leaves the
\* account list and accountDetails unchanged; so a second removeAccount of
\* the same address fails.
C11_RemoveTwice == [][C11_Step]_vars

\* the account was stored in two spellings; it was removed under one and the
\* second removal, under the other spelling, failed
C11_Witness ==
  \E t1, t2 \in CallTasks :
    /\ t1 < t2
    /\ tasks[t1].op = "removeAccount" /\ tasks[t1].promise = "resolved"
    /\ tasks[t2].op = "removeAccount" /\ tasks[t2].promise = "rejected"
    /\ tasks[t2].err = ErrNotFound
    /\ tasks[t1].address.id = tasks[t2].address.id
    /\ tasks[t1].address.form # tasks[t2].address.form

\* --------------------------------------------------------------------- C12
\* the keyring's state apart from the channel's tables
keyringState ==
  <<page, unlockedAccount, accounts, accountDetails, hdk, hdPath, paths,
    implementFullBIP44, iframeLoaded, isDeviceConnected, delayedPromise>>

C12_Step ==
  \A t \in CallTasks :
    CallStep(t, "signTypedData") /\ tasks'[t].version # "V4" =>
      /\ tasks'[t].promise = "rejected"
      /\ tasks'[t].err = ErrVersion
      /\ outbox' = outbox
      /\ messageCallbacks' = messageCallbacks
      /\ uuid' = uuid
      /\ keyringState' = keyringState
      /\ \A u \in Tasks \ {t} : tasks'[u] = tasks[u]

\* C12: signTypedData with a version other than "V4", or with none, fails
\* at once with the unsupported-version error: no message is posted, no
\* callback is registered and the keyring state is unchanged.
C12_VersionCheckedFirst == [][C12_Step]_vars

\* with the channel ready and the account stored, a V3 call and a call
\* without version have both failed and nothing was posted
C12_Witness ==
  /\ iframeLoaded
  /\ outbox = {}
  /\ \E t1, t2 \in CallTasks :
       /\ tasks[t1].op = "signTypedData" /\ tasks[t1].version = "V3"
       /\ tasks[t2].op = "signTypedData" /\ tasks[t2].version = "none"
       /\ tasks[t1].err = ErrVersion /\ tasks[t2].err = ErrVersion
       /\ accountHasDetails(State, tasks[t1].address)

\* --------------------------------------------------------------------- C13
ByAddressOps == SignOps \cup {"unlockAccountByAddress"}
SignActions ==
  {LedgerSignTransaction, LedgerSignPersonalMessage, LedgerSignTypedData}

\* the message handed to task t answers the unlock request of its
\* unlockAccountByAddress and reports the address a
UnlockReported(t, a) ==
  LET m == tasks[t].resp
  IN /\ tasks[t].op \in ByAddressOps
     /\ m.origin = BRIDGE_ORIGIN
     /\ m.success
     /\ isGetAddressMessageResponse(m.payload)
     /\ m.payload.address = a
     /\ \E o \in outbox : o.messageId = m.messageId /\ o.action = LedgerUnlock

\* task t has sent a signing request
SentSignRequest(t) ==
  \E o \in outbox : o.messageId = tasks[t].token /\ o.action \in SignActions

\* C13: when the address the bridge reports for the stored path differs,
\* ignoring letter case, from the requested address, the operation
\* (unlockAccountByAddress or a signing operation) has failed with the
\* foreign-account error and has sent no signing request.
C13_ForeignAccountFails ==
  \A t \in CallTasks, a \in {Addr(id, f) : id \in 1..(MaxAddrId + 1), f \in Forms} :
    UnlockReported(t, a) /\ toLowerCase(a) # toLowerCase(tasks[t].address) =>
      /\ tasks[t].promise = "rejected"
      /\ tasks[t].err = ErrForeign
      /\ ~SentSignRequest(t)

\* a signTransaction failed on another account's address, while a call whose
\* reported address differs from the requested one in letter case only went
\* on to send its signing request
C13_Witness ==
  \E t1, t2 \in CallTasks :
    /\ tasks[t1].op = "signTransaction"
    /\ UnlockReported(t1, Addr(2, "cs"))
    /\ tasks[t1].err = ErrForeign
    /\ tasks[t2].op \in SignOps
    /\ tasks[t2].address = Addr(1, "cs")
    /\ SentSignRequest(t2)

\* --------------------------------------------------------------------- C14
\* C14: unlockAccountByAddress, signTransaction, signPersonalMessage and
\* signTypedData fail without posting a request when the address is not in
\* the account list (in any letter case), and no step of theirs changes the
\* account list or accountDetails.
C14_ListedAccountsOnly ==
  [][/\ \A t \in CallTasks :
          (\E op \in ByAddressOps : CallStep(t, op))
          /\ ~Listed(accounts, tasks'[t].address) =>
            tasks'[t].promise = "rejected" /\ outbox' = outbox
     /\ (\A t \in CallTasks : ~CallStep(t, "deserialize")) =>
          accounts' = accounts /\ accountDetails' = accountDetails]_vars

\* --------------------------------------------------------------------- C15
\* C15: in every state another task can observe (between the atomic steps of
\* addAccounts, removeAccount, forgetDevice and the dispatch of responses)
\* every address in the account list has an accountDetails entry, under the
\* checksummed key the keyring looks entries up by.
C15_ListedHaveDetails ==
  \A n \in 1..Len(accounts) :
    toChecksumAddress(accounts[n]) \in DOMAIN accountDetails

\* forgetDevice ran while an earlier addAccounts was suspended; the
\* addAccounts then completed with the address the bridge spelled in lowercase
C15_Witness ==
  \E t1, t2 \in CallTasks :
    /\ t1 < t2
    /\ tasks[t1].op = "addAccounts" /\ tasks[t1].promise = "resolved"
    /\ tasks[t2].op = "forgetDevice"
    /\ accounts = <<Addr(1, "lc")>>

\* --------------------------------------------------------------------- C16
C16_Step ==
  \A t \in CallTasks :
    CallStep(t, "deserialize") =>
      LET opts == tasks'[t].opts
      IN /\ tasks'[t].promise = "resolved"
         /\ \A n \in 1..Len(accounts') :
              toChecksumAddress(accounts'[n]) \in DOMAIN accountDetails'
         /\ Range(accounts') \subseteq Range(opts.accounts)
         /\ \A a \in Range(opts.accounts) :
              toChecksumAddress(a) \in DOMAIN accountDetails' =>
                a \in Range(accounts')

AddressArrives(t) ==
  /\ tasks[t].op = "addAccounts"
  /\ tasks[t].pc = "addAccounts:unlock"
  /\ hdPath = ledgerLivePath
  /\ dispatched' = dispatched + 1
  /\ inbound'.origin = BRIDGE_ORIGIN
  /\ inbound'.messageId = tasks[t].token
  /\ tasks[t].token \in DOMAIN messageCallbacks
  /\ inbound'.success
  /\ isGetAddressMessageResponse(inbound'.payload)

C17_Step ==
  \A t \in CallTasks :
    AddressArrives(t) =>
      LET A == inbound'.payload.address
          key == toChecksumAddress(A)
      IN /\ Includes(accounts', key)
         /\ \A n \in 1..Len(accounts') :
              accounts'[n] = key \/ Includes(accounts, accounts'[n])
         /\ key \in DOMAIN accountDetails'
         /\ accountDetails'[key] =
              [bip44 |-> TRUE,
               hdPath |-> Path(TRUE, "44'/60'/" \o ToString(tasks[t].i) \o "'/0/0")]

\* C17: under the Ledger Live path, when the bridge reports address A for
\* index i, addAccounts leaves the checksummed form of A in the account list
\* and accountDetails[checksum(A)] = {hdPath: m/44'/60'/i'/0/0, bip44: true},
\* whatever letter case the bridge used for A.
C17_ChecksummedEntry == [][C17_Step]_vars

\* --------------------------------------------------------------------- C18
\* the step posts exactly one request, an unlock request
OneUnlockRequest ==
  /\ Cardinality(outbox' \ outbox) = 1
  /\ \A m \in outbox' \ outbox : m.action = LedgerUnlock

\* the step is an unlock() without path made while the keyring is unlocked
\* and returns at once, without any request
ReturnsAtOnce(t) ==
  /\ tasks'[t].promise = "resolved"
  /\ tasks'[t].ret = AlreadyUnlocked
  /\ outbox' = outbox
  /\ messageCallbacks' = messageCallbacks
  /\ uuid' = uuid
  /\ hdk' = hdk

\* C18 as stated: unlock() without path on an unlocked keyring returns at
\* once (no message, no callback, key material unchanged); unlock with a
\* path, or on a locked keyring, always sends exactly one unlock request.
C18_AlwaysOneRequest ==
  [][\A t \in CallTasks :
       CallStep(t, "unlock") =>
         IF isUnlocked(State) /\ tasks'[t].path = NoPath
         THEN ReturnsAtOnce(t)
         ELSE OneUnlockRequest]_vars

\* C18 amended: ... unlock with a path, or on a locked keyring, sends
\* exactly one unlock request when the channel is ready, and fails with the
\* not-ready error without sending any when it is not.
C18_OneRequestWhenReady ==
  [][\A t \in CallTasks :
       CallStep(t, "unlock") =>
         IF isUnlocked(State) /\ tasks'[t].path = NoPath
         THEN ReturnsAtOnce(t)
         ELSE IF iframeLoaded
              THEN OneUnlockRequest /\ tasks'[t].promise = "pending"
              ELSE /\ outbox' = outbox
                   /\ tasks'[t].promise = "rejected"
                   /\ tasks'[t].err = ErrNotLoaded]_vars

\* the first unlock asked the device and unlocked the keyring, the second,
\* without path, returned at once: one request was posted in all
C18_Witness ==
  \E t1, t2 \in CallTasks :
    /\ tasks[t1].op = "unlock" /\ tasks[t1].promise = "resolved"
    /\ tasks[t1].ret = Addr(1, "cs")
    /\ tasks[t2].op = "unlock" /\ tasks[t2].path = NoPath
    /\ tasks[t2].ret = AlreadyUnlocked
    /\ Cardinality(outbox) = 1
    /\ isUnlocked(State)

\* --------------------------------------------------------------------- C19
C19_Step ==
  \A t \in CallTasks :
    /\ CallStep(t, "setHdPath") =>
         /\ hdPath' = tasks'[t].path
         /\ IF tasks'[t].path # hdPath
            THEN ~isUnlocked(State)' /\ hdk' = NoKey
            ELSE hdk' = hdk
    /\ CallStep(t, "forgetDevice") => ~isUnlocked(State)' /\ hdk' = NoKey

\* C19: right after a setHdPath call whose path differs from the configured
\* root path, and right after forgetDevice, the key material is reset
\* (isUnlocked is false); setHdPath with the configured path leaves it as it
\* was.
C19_KeyResetOnPathChange == [][C19_Step]_vars

\* the device had unlocked the keyring under the legacy path; setHdPath with
\* the Ledger Live path locked it again
C19_Witness ==
  \E t1, t2 \in CallTasks :
    /\ tasks[t1].op = "unlock" /\ tasks[t1].path = NoPath
    /\ tasks[t1].ret = Addr(1, "cs")
    /\ tasks[t2].op = "setHdPath" /\ tasks[t2].path = ledgerLivePath
    /\ t1 < t2
    /\ hdPath = ledgerLivePath
    /\ ~isUnlocked(State)

\* --------------------------------------------------------------------- C20
C20_Step ==
  \A t \in CallTasks :
    CallStep(t, "forgetDevice") =>
      /\ accounts' = <<>>
      /\ accountDetails' = EmptyMap
      /\ paths' = EmptyMap
      /\ page' = 0
      /\ unlockedAccount' = 0
      /\ iframeLoaded' = iframeLoaded
      /\ isDeviceConnected' = isDeviceConnected
      /\ messageCallbacks' = messageCallbacks
      /\ delayedPromise' = delayedPromise
      /\ outbox' = outbox
      /\ hdPath' = hdPath

\* C20: right after forgetDevice the account list, accountDetails and the
\* path cache are empty and the page cursor and the account-to-unlock index
\* are 0 again, whatever they were; the channel state (ready flag, device
\* connected, pending callbacks) and the configured root path are unchanged.
C20_ForgetClears == [][C20_Step]_vars

\* a first page had been fetched (page cursor 1, path cache filled) for a
\* keyring holding an account, the device was connected; forgetDevice then
\* cleared the store and left the channel as it was
C20_Witness ==
  \E t1, t2 \in CallTasks :
    /\ tasks[t1].op = "getFirstPage" /\ tasks[t1].promise = "resolved"
    /\ Len(tasks[t1].entries) = perPage
    /\ tasks[t2].op = "forgetDevice"
    /\ paths = EmptyMap /\ page = 0 /\ accounts = <<>>
    /\ iframeLoaded /\ isDeviceConnected

\* --------------------------------------------------------------------- C21
\* the entries getFirstPage returned: consecutive indexes from the first
\* index of page 1; all perPage of them without full discovery, else up to
\* and including the first address without history
C21_Page(t) ==
  LET entries == tasks[t].entries
      history == tasks[t].history
      n == Len(entries)
  IN /\ n \in 1..perPage
     /\ \A k \in 1..n : entries[k].index = k - 1
     /\ ~implementFullBIP44 => n = perPage
     /\ implementFullBIP44 =>
          /\ Len(history) = n
          /\ \A k \in 1..(n - 1) : history[k]
          /\ n < perPage => ~history[n]

\* the step in which a page ends on an address without history posts no
\* further unlock request
C21_Step ==
  \A t \in CallTasks :
    /\ tasks[t].pc = "getPage:fetch"
    /\ tasks'[t].promise = "resolved"
    /\ Len(tasks'[t].entries) < perPage
    => outbox' = outbox

\* C21: under the Ledger Live path a page holds the entries of consecutive
\* indexes from the page's first index: perPage of them when
\* implementFullBIP44 is false; when it is true the page ends with the first
\* index whose address has no earlier transaction (no later index is
\* unlocked), and holds perPage entries when every address has some.
C21_DiscoveryStops ==
  /\ [](\A t \in CallTasks :
          tasks[t].op \in PageOps /\ tasks[t].promise = "resolved" => C21_Page(t))
  /\ [][C21_Step]_vars

\* with full discovery the page ended at index 1, the first address without
\* history
C21_Witness ==
  \E t \in CallTasks :
    /\ implementFullBIP44
    /\ tasks[t].op = "getFirstPage" /\ tasks[t].promise = "resolved"
    /\ tasks[t].history = <<TRUE, FALSE>>
    /\ Len(tasks[t].entries) = 2

\* --------------------------------------------------------------------- C22
\* the bridge has answered the update-transport request the load handler u
\* replayed
Replied(u) ==
  /\ tasks[u].op = "onload"
  /\ tasks[u].token # NoToken
  /\ tasks[u].resp.origin = BRIDGE_ORIGIN
  /\ tasks[u].resp.messageId = tasks[u].token

\* C22: once the channel is ready and the bridge has answered the replayed
\* update-transport request, every updateTransportMethod call made before
\* readiness is settled, a call whose mode a later call overwrote included:
\* none of them stays pending.
C22_EveryDeferredSettled ==
  (\E u \in LoadTasks : Replied(u)) =>
    \A t \in DeferredCalls : tasks[t].promise # "pending"

\* --------------------------------------------------------------------- C23
\* the first index of the page task t asked for, while it waits for the unlock
\* that precedes the fetch
C23_StartsAt(t, first) ==
  tasks'[t].pc = "getPage:unlock" => tasks'[t].i = first

C23_Step ==
  \A t \in CallTasks :
    /\ CallStep(t, "getFirstPage") =>
         page' = 1 /\ C23_StartsAt(t, 0)
    /\ CallStep(t, "getNextPage") /\ page >= 1 =>
         page' = page + 1 /\ C23_StartsAt(t, page * perPage)
    /\ CallStep(t, "getPreviousPage") /\ page >= 2 =>
         page' = page - 1 /\ C23_StartsAt(t, (page - 2) * perPage)

\* C23: getFirstPage sets the cursor to 1 and asks for the page from index 0;
\* each getNextPage after it moves the cursor up by one, so that after n of
\* them the cursor is 1 + n and the page starts at n * perPage; a
\* getPreviousPage then moves it down by one.
C23_CursorCounts == [][C23_Step]_vars

\* --------------------------------------------------------------------- C24
\* no account is listed twice, in whatever letter case
NoDuplicates(list) ==
  \A n, k \in 1..Len(list) :
    toLowerCase(list[n]) = toLowerCase(list[k]) => n = k

C24_Step ==
  \A t \in CallTasks :
    AddressArrives(t) =>
      LET address == inbound'.payload.address
      IN IF Listed(accounts, address)
         THEN accounts' = accounts
         ELSE accounts' = Append(accounts, accounts'[Len(accounts')])
              /\ Listed(<<accounts'[Len(accounts')]>>, address)

\* C24: the account list never holds an account twice: an address that
\* addAccounts unlocks and that is already listed leaves the list as it was,
\* and an address that is not listed is appended at the end.
C24_DuplicateFree == [](NoDuplicates(accounts)) /\ [][C24_Step]_vars

\* --------------------------------------------------------------------- C25
\* task t's call fails on the channel that is not ready
FailsNotReady(t) ==
  /\ tasks[t].pc = "idle"
  /\ tasks'[t].promise = "rejected"
  /\ tasks'[t].err = ErrNotLoaded

C25_Step ==
  \A t \in CallTasks :
    FailsNotReady(t) => messageCallbacks' = messageCallbacks

\* C25: a send that fails because the iframe has not loaded leaves
\* messageCallbacks as it was, so the table is empty as long as the iframe
\* has not loaded.
C25_NoCallbackKept ==
  /\ [](~iframeLoaded => messageCallbacks = EmptyMap)
  /\ [][C25_Step]_vars

\* --------------------------------------------------------------------- C26
\* the step dispatches a window message that does not come from the bridge
ForeignMessage ==
  /\ dispatched' = dispatched + 1
  /\ inbound'.origin # BRIDGE_ORIGIN

C26_Step ==
  ForeignMessage =>
    UNCHANGED <<page, unlockedAccount, accounts, accountDetails, hdk, hdPath,
                paths, implementFullBIP44, iframeLoaded, isDeviceConnected,
                messageCallbacks, delayedPromise, uuid, outbox, tasks, invoked>>

\* C26: a window message whose origin is not the bridge's changes nothing:
\* no callback is invoked even when its messageId is that of a waiting
\* request, no entry leaves messageCallbacks and isDeviceConnected keeps its
\* value, so the bridge can still answer the request.
C26_ForeignIgnored == [][C26_Step]_vars

\* a foreign message carried the messageId of a waiting unlock request and
\* reported success: the request still waits and the keyring is still locked
C26_Witness ==
  \E t \in CallTasks :
    /\ inbound.origin = OtherOrigin
    /\ dispatched >= 1
    /\ inbound.success
    /\ isGetAddressMessageResponse(inbound.payload)
    /\ inbound.messageId = tasks[t].token
    /\ tasks[t].token \in DOMAIN messageCallbacks
    /\ tasks[t].promise = "pending"
    /\ ~isUnlocked(State)

\* --------------------------------------------------------------------- C27
\* task t was a forgetDevice, or a setHdPath that changed hdPath
IsReset(t) ==
  \/ tasks[t].op = "forgetDevice"
  \/ tasks[t].op = "setHdPath" /\ tasks[t].path # tasks[t].oldPath

\* the step hands the unlock call t the bridge's successful answer to its
\* request
UnlockAnswered(t) ==
  /\ tasks[t].op = "unlock"
  /\ tasks[t].pc = "unlock"
  /\ dispatched' = dispatched + 1
  /\ inbound'.origin = BRIDGE_ORIGIN
  /\ inbound'.messageId = tasks[t].token
  /\ tasks[t].token \in DOMAIN messageCallbacks
  /\ inbound'.success
  /\ isGetAddressMessageResponse(inbound'.payload)

\* calls take the tasks in order: r was called after t
C27_Step ==
  \A t, r \in CallTasks :
    UnlockAnswered(t) /\ t < r /\ IsReset(r) => hdk' = hdk

\* C27: the successful answer to an unlock request made before a
\* forgetDevice, or before a setHdPath that changed hdPath, does not set
\* hdk: after the reset only an unlock made after it unlocks the keyring.
C27_StaleAnswerIgnored == [][C27_Step]_vars

\* --------------------------------------------------------------------- C28
\* the path has the form m/44'/60'/i'/0/0
StandardForm(path) ==
  \E i \in 0..(MaxUnlockIndex + MaxAmount) :
    path = Path(TRUE, "44'/60'/" \o ToString(i) \o "'/0/0")

\* C28: in every accountDetails entry addAccounts wrote, bip44 is true
\* exactly when hdPath has the form m/44'/60'/i'/0/0, also when setHdPath
\* changes hdPath while addAccounts waits for the answer to its unlock.
C28_DetailsConsistent ==
  \A a \in DOMAIN accountDetails :
    accountDetails[a].bip44 <=> StandardForm(accountDetails[a].hdPath)

====
